---------------------------- MODULE Spec2Model ----------------------------
(***************************************************************************)
(* SFILS patron loader: the MongoDB program (mongo/app/main.go) and the    *)
(* MySQL program (app/main.go with scripts/create_tables.sql).             *)
(*                                                                         *)
(* Strings are sequences of one-character strings, so that TrimSpace,      *)
(* ToLower, EqualFold and Contains are computed character by character.    *)
(* An optional value (a nil pointer / SQL NULL) is Nil, a present one is   *)
(* Some(v).                                                                *)
(***************************************************************************)
EXTENDS Integers, Sequences, FiniteSets, TLC

VARIABLES
    impl,          \* "mongo" or "mysql": which of the two programs runs
    rows,          \* what GetRows returned: the sheet, header row included
    store,         \* the four collections / tables as the server holds them
    tx,            \* mysql: the tables as seen inside the open transaction
    pc,            \* the position of main / importExcel
    i,             \* importExcel: the index of the loop over rows (0-based)
    row,           \* importExcel: the current row, cleaned in place
    patronTypeID,  \* mysql importExcel: the id returned by getPatronTypeID
    patronDocs,    \* mongo importExcel: the batch buffer
    good,          \* importExcel: good
    bad,           \* importExcel: bad
    log,           \* the store calls issued so far, in order
    faults,        \* the number of store / file failures that have happened
    warnings,      \* the number of "can't recognize month name" lines printed
    summary,       \* the "excel import complete" lines, once printed
    run,           \* 1 for the first launch of the program, 2 for a relaunch
    snap,          \* the store as the first launch left it, and its bad
    arg,           \* the input string of a direct call of a helper
    res            \* the result of that call, once made

vars == <<impl, rows, store, tx, pc, i, row, patronTypeID, patronDocs, good,
          bad, log, faults, warnings, summary, run, snap, arg, res>>

loaderVars == <<impl, rows, store, tx, pc, i, row, patronTypeID, patronDocs,
                good, bad, log, faults, warnings, summary, run, snap>>

-----------------------------------------------------------------------------
(* Bounds of the model *)

\* the longest sheet: data rows after the header
MaxRows == 3
\* the batching threshold; the code flushes at 1000 (part_000:356), the model
\* scales the threshold down so that full batches happen within MaxRows
BatchSize == 2
\* how many store / file calls may fail in one behaviour
MaxFaults == 1
\* the longest run of white space put before and after a helper's input
MaxPad == 1

\* len(row) < 14
MinCols == 14

-----------------------------------------------------------------------------
(* Optional values *)

Nil == <<>>
Some(v) == <<v>>

-----------------------------------------------------------------------------
(* Strings *)

Upper == <<"A","B","C","D","E","F","G","H","I","J","K","L","M",
           "N","O","P","Q","R","S","T","U","V","W","X","Y","Z">>
Lower == <<"a","b","c","d","e","f","g","h","i","j","k","l","m",
           "n","o","p","q","r","s","t","u","v","w","x","y","z">>

\* unicode.IsSpace on the characters of the model
IsSpace(c) == c \in {" ", "\t", "\n", "\r"}

ToLowerChar(c) ==
    IF \E k \in 1..26 : Upper[k] = c
    THEN Lower[CHOOSE k \in 1..26 : Upper[k] = c]
    ELSE c

\* strings.ToLower
ToLower(s) == [k \in 1..Len(s) |-> ToLowerChar(s[k])]

RECURSIVE TrimLeftSpace(_)
TrimLeftSpace(s) ==
    IF s # <<>> /\ IsSpace(Head(s)) THEN TrimLeftSpace(Tail(s)) ELSE s

RECURSIVE TrimRightSpace(_)
TrimRightSpace(s) ==
    IF s # <<>> /\ IsSpace(s[Len(s)])
    THEN TrimRightSpace(SubSeq(s, 1, Len(s) - 1))
    ELSE s

\* strings.TrimSpace
TrimSpace(s) == TrimRightSpace(TrimLeftSpace(s))

\* strings.ReplaceAll(s, "\n", " ")
ReplaceNewlines(s) == [k \in 1..Len(s) |-> IF s[k] = "\n" THEN " " ELSE s[k]]

\* strings.EqualFold
EqualFold(s, t) ==
    /\ Len(s) = Len(t)
    /\ \A k \in 1..Len(s) : ToLowerChar(s[k]) = ToLowerChar(t[k])

\* strings.Contains(s, "@")
ContainsAt(s) == \E k \in 1..Len(s) : s[k] = "@"

sTrue == <<"t","r","u","e">>
sFalse == <<"f","a","l","s","e">>

MonthNames == <<
    <<"j","a","n","u","a","r","y">>,
    <<"f","e","b","r","u","a","r","y">>,
    <<"m","a","r","c","h">>,
    <<"a","p","r","i","l">>,
    <<"m","a","y">>,
    <<"j","u","n","e">>,
    <<"j","u","l","y">>,
    <<"a","u","g","u","s","t">>,
    <<"s","e","p","t","e","m","b","e","r">>,
    <<"o","c","t","o","b","e","r">>,
    <<"n","o","v","e","m","b","e","r">>,
    <<"d","e","c","e","m","b","e","r">> >>

\* a lookup that misses the last entry of the map
MonthsLookupNoDecember(name) ==
    IF \E n \in 1..11 : MonthNames[n] = name
    THEN Some(CHOOSE n \in 1..11 : MonthNames[n] = name)
    ELSE Nil

\* the months map: the number of a lower-case name, Nil when it has none
MonthsLookup(name) ==
    IF \E n \in 1..12 : MonthNames[n] = name
    THEN Some(CHOOSE n \in 1..12 : MonthNames[n] = name)
    ELSE Nil

\* monthToIntOrNull: val is the *int returned, warned tells whether the
\* warning line was printed
monthToIntOrNull(monthName) ==
    LET m == TrimSpace(monthName) IN
    IF m = <<>>
    THEN [val |-> Nil, warned |-> FALSE]
    ELSE LET num == MonthsLookup(ToLower(m)) IN
         IF num # Nil
         THEN [val |-> num, warned |-> FALSE]
         ELSE [val |-> Nil, warned |-> TRUE]

\* stringToPointerOrNull / stringToIntOrNull
stringToPointerOrNull(value) ==
    LET v == TrimSpace(value) IN IF v = <<>> THEN Nil ELSE Some(v)

\* a cleanEmail without the '@' test
cleanEmailNoAtTest(email) ==
    LET e == TrimSpace(email) IN
    IF e = <<>> \/ EqualFold(e, sTrue) \/ EqualFold(e, sFalse)
    THEN Nil
    ELSE Some(e)

\* cleanEmail
cleanEmail(email) ==
    LET e == TrimSpace(email) IN
    IF e = <<>> \/ EqualFold(e, sTrue) \/ EqualFold(e, sFalse) \/ ~ContainsAt(e)
    THEN Nil
    ELSE Some(e)

-----------------------------------------------------------------------------
(* Rows of the sheet.  Cell k of a row is row[k-1] of the code. *)

HeaderRow == << <<"h">> >>

\* a row with 14 cells: patron type A, library M, notification type z
RowV1 == << <<"A">>, <<"a","d">>, <<"1">>, <<"0">>, <<"x">>, <<"M">>,
            <<"m","1">>, <<"M","a","y">>, <<"2","3">>, <<"z">>, <<"e","1">>,
            <<"a","@","b">>, <<"T","r","u","e">>, <<"0","3">> >>

\* the same three codes once cleaned, other descriptions, cells that need
\* cleaning, an unknown month, a sentinel e-mail, no years
RowV2 == << <<"A","\n">>, <<"a","\n","p">>, <<"2">>, <<"1">>, <<"y">>,
            <<" ","M">>, <<"m","2">>, <<"X">>, <<>>, <<"z"," ">>,
            <<"e","2">>, <<"T","r","u","e">>, <<"n","o">>, <<" ">> >>

\* other codes, no month, no e-mail
RowV3 == << <<"B">>, <<"b","1">>, <<"3">>, <<"2">>, <<"x">>, <<"P">>,
            <<"p","1">>, <<>>, <<"2","4">>, <<"y">>, <<"f","1">>,
            <<>>, <<"f","a","l","s","e">>, <<"0","4">> >>

\* a row with 13 cells, its codes in no other row
RowShort == << <<"C">>, <<"c","1">>, <<"4">>, <<"3">>, <<"x">>, <<"Q">>,
               <<"q","1">>, <<"M","a","y">>, <<"2","3">>, <<"w">>,
               <<"g","1">>, <<"c","@","d">>, <<"t","r","u","e">> >>

RowSet == {RowV1, RowV2, RowV3, RowShort}

SeqUpTo(S, n) == UNION {[1..k -> S] : k \in 0..n}

\* the sheets: an empty sheet, or a header row and up to MaxRows data rows
Sheets == {<<>>} \cup {<<HeaderRow>> \o d : d \in SeqUpTo(RowSet, MaxRows)}

-----------------------------------------------------------------------------
(* The store *)

Collections == {"patrons", "patron_types", "libraries", "notification_types"}

EmptyStore == [c \in Collections |-> <<>>]

\* what an earlier load of an older sheet left behind (mongo documents)
OldStoreMongo ==
    [patrons |-> << [patron_type_code |-> <<"A">>, patron_type_desc |-> <<"o">>,
                     checkout_total |-> <<"9">>, renewal_total |-> <<"9">>,
                     age_range |-> <<"x">>, home_library_code |-> <<"M">>,
                     home_library_name |-> <<"o">>, active_month |-> Nil,
                     active_year |-> Nil, notification_type_code |-> <<"z">>,
                     notification_type_desc |-> <<"o">>, email |-> Nil,
                     within_sfc |-> FALSE, year_registered |-> Nil] >>,
     patron_types |-> << [code |-> <<"A">>, description |-> <<"o">>] >>,
     libraries |-> << [code |-> <<"M">>, name |-> <<"o">>] >>,
     notification_types |-> << [code |-> <<"z">>, description |-> <<"o">>] >>]

\* the same as rows of the mysql tables
OldStoreSQL ==
    [patrons |-> << [patron_type_id |-> 1, checkout_total |-> <<"9">>,
                     renewal_total |-> <<"9">>, age_range |-> <<"x">>,
                     home_library_code |-> <<"M">>, active_month |-> Nil,
                     active_year |-> Nil, notification_type_code |-> <<"z">>,
                     email |-> Nil, within_sfc |-> 0,
                     year_registered |-> Nil] >>,
     patron_types |-> << [id |-> 1, code |-> <<"A">>, description |-> <<"o">>] >>,
     libraries |-> << [code |-> <<"M">>, name |-> <<"o">>] >>,
     notification_types |-> << [code |-> <<"z">>, description |-> <<"o">>] >>]

PriorStores(im) ==
    IF im = "mongo" THEN {EmptyStore, OldStoreMongo} ELSE {EmptyStore, OldStoreSQL}

HasCode(coll, code) == \E k \in 1..Len(coll) : coll[k].code = code

\* an insert in place of the upsert
UpsertAlwaysInserts(coll, doc) == Append(coll, doc)

\* UpdateOne(filter {code}, $setOnInsert, upsert) and INSERT IGNORE: the
\* document is inserted when no document has its code, else nothing changes
Upsert(coll, doc) ==
    IF HasCode(coll, doc.code) THEN coll ELSE Append(coll, doc)

\* one entry of the log of store calls: the call, its collection / table, the
\* document(s) it carries, whether it succeeded, and the loop index it was
\* issued at
Call(op, coll, a, ok) == [op |-> op, coll |-> coll, arg |-> a, ok |-> ok, row |-> i]

-----------------------------------------------------------------------------
(* importExcel: the parts that touch no store *)

\* a length test that lets 13 cells through
TooShortOffByOne(r) == Len(r) < MinCols - 1

\* len(row) < 14
TooShort(r) == Len(r) < MinCols

\* row[j] = strings.TrimSpace(strings.ReplaceAll(row[j], "\n", " "))
CleanRowCells(r) == [j \in 1..Len(r) |-> TrimSpace(ReplaceNewlines(r[j]))]

\* the Patron document of the mongo program, from the cleaned row
MakePatron(r) ==
    [patron_type_code |-> r[1], patron_type_desc |-> r[2],
     checkout_total |-> r[3], renewal_total |-> r[4], age_range |-> r[5],
     home_library_code |-> r[6], home_library_name |-> r[7],
     active_month |-> monthToIntOrNull(r[8]).val,
     active_year |-> stringToPointerOrNull(r[9]),
     notification_type_code |-> r[10], notification_type_desc |-> r[11],
     email |-> cleanEmail(r[12]),
     within_sfc |-> EqualFold(r[13], sTrue),
     year_registered |-> stringToPointerOrNull(r[14])]

\* the arguments of stmt.Exec of the mysql program, from the cleaned row
MakePatronSQL(id, r) ==
    [patron_type_id |-> id, checkout_total |-> r[3], renewal_total |-> r[4],
     age_range |-> r[5], home_library_code |-> r[6],
     active_month |-> monthToIntOrNull(r[8]).val,
     active_year |-> stringToPointerOrNull(r[9]),
     notification_type_code |-> r[10],
     email |-> cleanEmail(r[12]),
     within_sfc |-> IF EqualFold(r[13], sTrue) THEN 1 ELSE 0,
     year_registered |-> stringToPointerOrNull(r[14])]

\* 1 when monthToIntOrNull prints its warning for the row, else 0
MonthWarning(r) == IF monthToIntOrNull(r[8]).warned THEN 1 ELSE 0

-----------------------------------------------------------------------------
(* The state after the program is launched *)

InitWith(sheets, args) ==
    /\ impl \in {"mongo", "mysql"}
    /\ rows \in sheets
    /\ store \in PriorStores(impl)
    /\ tx = Nil
    /\ pc = "start"
    /\ i = 0
    /\ row = <<>>
    /\ patronTypeID = 0
    /\ patronDocs = <<>>
    /\ good = 0
    /\ bad = 0
    /\ log = <<>>
    /\ faults = 0
    /\ warnings = 0
    /\ summary = Nil
    /\ run = 1
    /\ snap = Nil
    /\ arg \in args
    /\ res = Nil

Init == InitWith(Sheets, {<<>>})

CanFail == faults < MaxFaults

\* log.Fatal: the process exits
Fatal ==
    /\ pc' = "fatal"
    /\ faults' = faults + 1

-----------------------------------------------------------------------------
(* main, up to importExcel *)

\* mongo.Connect and Ping; sql.Open, Ping, CREATE DATABASE, USE
Connect ==
    /\ pc = "start"
    /\ \/ /\ pc' = IF impl = "mongo" THEN "mainIndexes" ELSE "dropPatrons"
          /\ UNCHANGED faults
       \/ /\ CanFail
          /\ Fatal
    /\ UNCHANGED <<impl, rows, store, tx, i, row, patronTypeID, patronDocs,
                   good, bad, log, warnings, summary, run, snap, arg, res>>

\* createIndexes: the unique index on code of the three reference collections
\* and the six indexes on patrons; called by main and again by importExcel
CreateIndexes ==
    /\ impl = "mongo"
    /\ pc \in {"mainIndexes", "indexes"}
    /\ \/ /\ pc' = IF pc = "mainIndexes" THEN "open" ELSE "loop"
          /\ log' = Append(log, Call("createIndexes", "all", <<>>, TRUE))
          /\ UNCHANGED faults
       \/ /\ CanFail
          /\ log' = Append(log, Call("createIndexes", "all", <<>>, FALSE))
          /\ Fatal
    /\ UNCHANGED <<impl, rows, store, tx, i, row, patronTypeID, patronDocs,
                   good, bad, warnings, summary, run, snap, arg, res>>

\* excelize.OpenFile and GetRows
OpenFile ==
    /\ pc = "open"
    /\ \/ /\ pc' = IF impl = "mongo" THEN "dropPatrons" ELSE "begin"
          /\ UNCHANGED faults
       \/ /\ CanFail
          /\ Fatal
    /\ UNCHANGED <<impl, rows, store, tx, i, row, patronTypeID, patronDocs,
                   good, bad, log, warnings, summary, run, snap, arg, res>>

-----------------------------------------------------------------------------
(* The reset: Collection.Drop in importExcel (mongo), the DROP TABLE IF      *)
(* EXISTS statements of create_tables.sql run by runScripts (mysql)          *)

DropOrder == <<"patrons", "patron_types", "libraries", "notification_types">>
DropPcs == <<"dropPatrons", "dropPatronTypes", "dropLibraries", "dropNotificationTypes">>

DropIndex == CHOOSE k \in 1..4 : DropPcs[k] = pc

\* a reset that does not create the indexes again
AfterDropsToLoop == IF impl = "mongo" THEN "loop" ELSE "createTables"

\* importExcel creates the indexes again after the drops; runScripts goes
\* on to the CREATE TABLE statements
AfterDrops == IF impl = "mongo" THEN "indexes" ELSE "createTables"

NextDropPc(k) == IF k < 4 THEN DropPcs[k + 1] ELSE AfterDrops

\* where a failed drop leads: mongo prints a note and goes on, runScripts
\* returns the error and main ends the program
AfterFailedDrop(k) == IF impl = "mongo" THEN NextDropPc(k) ELSE "fatal"

DropOk ==
    /\ \E k \in 1..4 : DropPcs[k] = pc
    /\ store' = [store EXCEPT ![DropOrder[DropIndex]] = <<>>]
    /\ log' = Append(log, Call("drop", DropOrder[DropIndex], <<>>, TRUE))
    /\ pc' = NextDropPc(DropIndex)
    /\ UNCHANGED <<impl, rows, tx, i, row, patronTypeID, patronDocs, good, bad,
                   faults, warnings, summary, run, snap, arg, res>>

DropFails ==
    /\ \E k \in 1..4 : DropPcs[k] = pc
    /\ CanFail
    /\ faults' = faults + 1
    /\ log' = Append(log, Call("drop", DropOrder[DropIndex], <<>>, FALSE))
    /\ pc' = AfterFailedDrop(DropIndex)
    /\ UNCHANGED <<impl, rows, store, tx, i, row, patronTypeID, patronDocs,
                   good, bad, warnings, summary, run, snap, arg, res>>

\* runScripts: the four CREATE TABLE IF NOT EXISTS statements
CreateTables ==
    /\ impl = "mysql"
    /\ pc = "createTables"
    /\ \/ /\ pc' = "open"
          /\ log' = Append(log, Call("createTables", "all", <<>>, TRUE))
          /\ UNCHANGED faults
       \/ /\ CanFail
          /\ log' = Append(log, Call("createTables", "all", <<>>, FALSE))
          /\ Fatal
    /\ UNCHANGED <<impl, rows, store, tx, i, row, patronTypeID, patronDocs,
                   good, bad, warnings, summary, run, snap, arg, res>>

\* db.Begin and tx.Prepare; a failed Prepare rolls the transaction back
BeginTx ==
    /\ impl = "mysql"
    /\ pc = "begin"
    /\ \/ /\ tx' = Some(store)
          /\ pc' = "loop"
          /\ UNCHANGED faults
       \/ /\ CanFail
          /\ tx' = Nil
          /\ Fatal
    /\ UNCHANGED <<impl, rows, store, i, row, patronTypeID, patronDocs, good,
                   bad, log, warnings, summary, run, snap, arg, res>>

-----------------------------------------------------------------------------
(* importExcel: the loop over rows *)

\* the tables the row's statements work on: the server's collections
\* (mongo), the tables as the transaction sees them (mysql)
Tables == IF impl = "mongo" THEN store ELSE tx[1]

\* writes that go to the database handle, past the transaction
WriteTablesPastTx(t) == store' = t /\ UNCHANGED tx

\* the effect of a write on them
WriteTables(t) ==
    IF impl = "mongo"
    THEN store' = t /\ UNCHANGED tx
    ELSE tx' = Some(t) /\ UNCHANGED store

\* the row is done: the loop goes to its next index
NextRow ==
    /\ i' = i + 1
    /\ pc' = "loop"

\* the row is counted as failed and the loop continues
RowFailed ==
    /\ bad' = bad + 1
    /\ NextRow

\* the range over rows is exhausted
LoopEnd ==
    /\ pc = "loop"
    /\ i >= Len(rows)
    /\ pc' = IF impl = "mongo" THEN "final" ELSE "commit"
    /\ UNCHANGED <<impl, rows, store, tx, i, row, patronTypeID, patronDocs,
                   good, bad, log, faults, warnings, summary, run, snap, arg, res>>

\* if i == 0 { continue }
SkipHeader ==
    /\ pc = "loop"
    /\ i < Len(rows)
    /\ i = 0
    /\ NextRow
    /\ UNCHANGED <<impl, rows, store, tx, row, patronTypeID, patronDocs, good,
                   bad, log, faults, warnings, summary, run, snap, arg, res>>

\* if len(row) < 14 { bad++; continue }
RejectRow ==
    /\ pc = "loop"
    /\ i < Len(rows)
    /\ i # 0
    /\ TooShort(rows[i + 1])
    /\ RowFailed
    /\ UNCHANGED <<impl, rows, store, tx, row, patronTypeID, patronDocs, good,
                   log, faults, warnings, summary, run, snap, arg, res>>

\* the row has its 14 cells: clean up each cell
CleanRow ==
    /\ pc = "loop"
    /\ i < Len(rows)
    /\ i # 0
    /\ ~TooShort(rows[i + 1])
    /\ row' = CleanRowCells(rows[i + 1])
    /\ pc' = "pt"
    /\ UNCHANGED <<impl, rows, store, tx, i, patronTypeID, patronDocs, good,
                   bad, log, faults, warnings, summary, run, snap, arg, res>>

\* the reference documents of the current row
PatronTypeDoc == [code |-> row[1], description |-> row[2]]
LibraryDoc == [code |-> row[6], name |-> row[7]]
NotificationTypeDoc == [code |-> row[10], description |-> row[11]]

\* a failed reference write after which the row is processed further
AfterFailedUpsertGoesOn ==
    /\ bad' = bad + 1
    /\ UNCHANGED i
    /\ pc' = IF pc = "pt" THEN "lib" ELSE IF pc = "lib" THEN "nt" ELSE "patron"

\* a failed reference write that ends the load
AfterFailedUpsertStops ==
    /\ pc' = "fatal"
    /\ UNCHANGED <<i, bad>>

\* after a failed reference write: bad++; continue
AfterFailedUpsert == RowFailed

\* the id getPatronTypeID returns for a code the table holds
IdOfCode(t, code) ==
    t.patron_types[CHOOSE k \in 1..Len(t.patron_types) :
                       t.patron_types[k].code = code].id

\* ensurePatronType (mongo); getPatronTypeID (mysql): SELECT id, and INSERT
\* when there is no such row
EnsurePatronType ==
    /\ pc = "pt"
    /\ \/ /\ impl = "mongo"
          /\ WriteTables([Tables EXCEPT !.patron_types =
                 Upsert(@, PatronTypeDoc)])
          /\ log' = Append(log, Call("upsert", "patron_types", PatronTypeDoc, TRUE))
          /\ pc' = "lib"
          /\ UNCHANGED <<i, bad, faults, patronTypeID>>
       \/ /\ impl = "mysql"
          /\ HasCode(Tables.patron_types, row[1])
          /\ patronTypeID' = IdOfCode(Tables, row[1])
          /\ log' = Append(log, Call("select", "patron_types", [code |-> row[1]], TRUE))
          /\ pc' = "lib"
          /\ UNCHANGED <<store, tx, i, bad, faults>>
       \/ /\ impl = "mysql"
          /\ ~HasCode(Tables.patron_types, row[1])
          /\ patronTypeID' = Len(Tables.patron_types) + 1
          /\ WriteTables([Tables EXCEPT !.patron_types =
                 Append(@, [id |-> Len(Tables.patron_types) + 1,
                            code |-> row[1], description |-> row[2]])])
          /\ log' = log \o << Call("select", "patron_types", [code |-> row[1]], TRUE),
                              Call("insert", "patron_types", PatronTypeDoc, TRUE) >>
          /\ pc' = "lib"
          /\ UNCHANGED <<i, bad, faults>>
       \/ /\ CanFail
          /\ faults' = faults + 1
          /\ log' = Append(log, Call(IF impl = "mongo" THEN "upsert" ELSE "select",
                                     "patron_types", PatronTypeDoc, FALSE))
          /\ AfterFailedUpsert
          /\ UNCHANGED <<store, tx, patronTypeID>>
    /\ UNCHANGED <<impl, rows, row, patronDocs, good, warnings, summary, run,
                   snap, arg, res>>

\* ensureLibrary: the upsert (mongo), INSERT IGNORE (mysql)
EnsureLibrary ==
    /\ pc = "lib"
    /\ \/ /\ WriteTables([Tables EXCEPT !.libraries =
                 Upsert(@, LibraryDoc)])
          /\ log' = Append(log, Call("upsert", "libraries", LibraryDoc, TRUE))
          /\ pc' = "nt"
          /\ UNCHANGED <<i, bad, faults>>
       \/ /\ CanFail
          /\ faults' = faults + 1
          /\ log' = Append(log, Call("upsert", "libraries", LibraryDoc, FALSE))
          /\ AfterFailedUpsert
          /\ UNCHANGED <<store, tx>>
    /\ UNCHANGED <<impl, rows, row, patronTypeID, patronDocs, good, warnings,
                   summary, run, snap, arg, res>>

\* ensureNotificationType: the upsert (mongo), INSERT IGNORE (mysql)
EnsureNotificationType ==
    /\ pc = "nt"
    /\ \/ /\ WriteTables([Tables EXCEPT !.notification_types =
                 Upsert(@, NotificationTypeDoc)])
          /\ log' = Append(log, Call("upsert", "notification_types", NotificationTypeDoc, TRUE))
          /\ pc' = "patron"
          /\ UNCHANGED <<i, bad, faults>>
       \/ /\ CanFail
          /\ faults' = faults + 1
          /\ log' = Append(log, Call("upsert", "notification_types", NotificationTypeDoc, FALSE))
          /\ AfterFailedUpsert
          /\ UNCHANGED <<store, tx>>
    /\ UNCHANGED <<impl, rows, row, patronTypeID, patronDocs, good, warnings,
                   summary, run, snap, arg, res>>

-----------------------------------------------------------------------------
(* importExcel: the patron of the row *)

\* a threshold test that lets the buffer grow one record too far
BatchFullOffByOne(docs) == Len(docs) > BatchSize

\* len(patronDocs) >= 1000
BatchFull(docs) == Len(docs) >= BatchSize

\* patronDocs = append(patronDocs, patron); good++ (mongo)
AppendPatron ==
    /\ impl = "mongo"
    /\ pc = "patron"
    /\ patronDocs' = Append(patronDocs, MakePatron(row))
    /\ good' = good + 1
    /\ warnings' = warnings + MonthWarning(row)
    /\ IF BatchFull(patronDocs')
       THEN pc' = "flush" /\ UNCHANGED i
       ELSE NextRow
    /\ UNCHANGED <<impl, rows, store, tx, row, patronTypeID, bad, log, faults,
                   summary, run, snap, arg, res>>

\* a failed batch that ends the load
AfterFailedBatchStops ==
    /\ pc' = "fatal"
    /\ UNCHANGED i

\* after a failed InsertMany in the loop: the loop goes on
AfterFailedBatch == NextRow

\* if len(patronDocs) >= 1000: InsertMany, then patronDocs = []
FlushBatch ==
    /\ impl = "mongo"
    /\ pc = "flush"
    /\ \/ /\ store' = [store EXCEPT !.patrons = @ \o patronDocs]
          /\ log' = Append(log, Call("insertMany", "patrons", patronDocs, TRUE))
          /\ NextRow
          /\ UNCHANGED <<good, bad, faults>>
       \/ /\ CanFail
          /\ faults' = faults + 1
          /\ log' = Append(log, Call("insertMany", "patrons", patronDocs, FALSE))
          /\ bad' = bad + Len(patronDocs)
          /\ good' = good - Len(patronDocs)
          /\ AfterFailedBatch
          /\ UNCHANGED store
    /\ patronDocs' = <<>>
    /\ UNCHANGED <<impl, rows, tx, row, patronTypeID, warnings, summary, run,
                   snap, arg, res>>

\* insert remaining documents: if len(patronDocs) > 0: InsertMany
FinalBatch ==
    /\ impl = "mongo"
    /\ pc = "final"
    /\ \/ /\ Len(patronDocs) = 0
          /\ UNCHANGED <<store, log, good, bad, faults>>
       \/ /\ Len(patronDocs) > 0
          /\ store' = [store EXCEPT !.patrons = @ \o patronDocs]
          /\ log' = Append(log, Call("insertMany", "patrons", patronDocs, TRUE))
          /\ UNCHANGED <<good, bad, faults>>
       \/ /\ Len(patronDocs) > 0
          /\ CanFail
          /\ faults' = faults + 1
          /\ log' = Append(log, Call("insertMany", "patrons", patronDocs, FALSE))
          /\ bad' = bad + Len(patronDocs)
          /\ good' = good - Len(patronDocs)
          /\ UNCHANGED store
    /\ pc' = "summary"
    /\ UNCHANGED <<impl, rows, tx, i, row, patronTypeID, patronDocs, warnings,
                   summary, run, snap, arg, res>>

\* stmt.Exec of the INSERT INTO patrons (mysql)
InsertPatron ==
    /\ impl = "mysql"
    /\ pc = "patron"
    /\ warnings' = warnings + MonthWarning(row)
    /\ \/ /\ tx' = Some([Tables EXCEPT !.patrons =
                            Append(@, MakePatronSQL(patronTypeID, row))])
          /\ log' = Append(log, Call("insert", "patrons",
                                     <<MakePatronSQL(patronTypeID, row)>>, TRUE))
          /\ good' = good + 1
          /\ UNCHANGED <<bad, faults>>
       \/ /\ CanFail
          /\ faults' = faults + 1
          /\ log' = Append(log, Call("insert", "patrons",
                                     <<MakePatronSQL(patronTypeID, row)>>, FALSE))
          /\ bad' = bad + 1
          /\ UNCHANGED <<tx, good>>
    /\ NextRow
    /\ UNCHANGED <<impl, rows, store, row, patronTypeID, patronDocs, summary,
                   run, snap, arg, res>>

\* tx.Commit; when it fails importExcel returns the error
Commit ==
    /\ impl = "mysql"
    /\ pc = "commit"
    /\ \/ /\ store' = tx[1]
          /\ log' = Append(log, Call("commit", "all", <<>>, TRUE))
          /\ pc' = "summary"
          /\ UNCHANGED faults
       \/ /\ CanFail
          /\ log' = Append(log, Call("commit", "all", <<>>, FALSE))
          /\ Fatal
          /\ UNCHANGED store
    /\ tx' = Nil
    /\ UNCHANGED <<impl, rows, i, row, patronTypeID, patronDocs, good, bad,
                   warnings, summary, run, snap, arg, res>>

\* the "excel import complete" lines; importExcel returns nil and main
\* starts the text interface
Summary ==
    /\ pc = "summary"
    /\ summary' = Some([total |-> Len(rows) - 1, good |-> good, bad |-> bad])
    /\ pc' = "shell"
    /\ UNCHANGED <<impl, rows, store, tx, i, row, patronTypeID, patronDocs,
                   good, bad, log, faults, warnings, run, snap, arg, res>>

\* the program is launched again on the same sheet
Relaunch ==
    /\ pc = "shell"
    /\ run = 1
    /\ run' = 2
    /\ snap' = Some([store |-> store, bad |-> bad])
    /\ pc' = "start"
    /\ i' = 0
    /\ row' = <<>>
    /\ patronTypeID' = 0
    /\ patronDocs' = <<>>
    /\ good' = 0
    /\ bad' = 0
    /\ log' = <<>>
    /\ warnings' = 0
    /\ summary' = Nil
    /\ UNCHANGED <<impl, rows, store, tx, faults, arg, res>>

-----------------------------------------------------------------------------
(* The specifications *)

Next ==
    \/ Connect
    \/ CreateIndexes
    \/ OpenFile
    \/ DropOk
    \/ DropFails
    \/ CreateTables
    \/ BeginTx
    \/ LoopEnd
    \/ SkipHeader
    \/ RejectRow
    \/ CleanRow
    \/ EnsurePatronType
    \/ EnsureLibrary
    \/ EnsureNotificationType
    \/ AppendPatron
    \/ FlushBatch
    \/ FinalBatch
    \/ InsertPatron
    \/ Commit
    \/ Summary

\* one launch of the program
Spec == Init /\ [][Next]_vars

\* two launches on the same sheet
SpecReload == Init /\ [][Next \/ Relaunch]_vars

-----------------------------------------------------------------------------
(* startTextInterface: the query shell.  arg is the line read from standard  *)
(* input, res what the shell did and printed for it.                         *)

\* the limit on the documents of a Find, 100 in the code
QueryLimit == 2

kwExit == <<"e", "x", "i", "t">>
kwQuit == <<"q", "u", "i", "t">>
kwHelp == <<"h", "e", "l", "p">>
kwBenchmark == <<"b", "e", "n", "c", "h", "m", "a", "r", "k">>
sBraces == <<"{", "}">>

\* the names of the collections / tables as they are typed
Chars ==
    [patrons |-> <<"p", "a", "t", "r", "o", "n", "s">>,
     patron_types |-> <<"p", "a", "t", "r", "o", "n", "_", "t", "y", "p", "e", "s">>,
     libraries |-> <<"l", "i", "b", "r", "a", "r", "i", "e", "s">>,
     notification_types |-> <<"n", "o", "t", "i", "f", "i", "c", "a", "t", "i", "o", "n", "_", "t", "y", "p", "e", "s">>]

\* the lines a user types; ReadString returns <<>> at end of input
ShellLines ==
    { <<>>,
      <<" ", "\n">>,
      <<"e", "x", "i", "t", "\n">>,
      <<" ", "q", "u", "i", "t", "\n">>,
      <<"E", "X", "I", "T", "\n">>,
      <<"Q", "u", "i", "t", "\n">>,
      <<"e", "x", "i", "t", " ", "x", "\n">>,
      <<"h", "e", "l", "p", "\n">>,
      <<"b", "e", "n", "c", "h", "m", "a", "r", "k", "\n">>,
      <<"p", "a", "t", "r", "o", "n", "s", "|", "{", "}", "\n">>,
      <<" ", "p", "a", "t", "r", "o", "n", "s", " ", "|", " ", "\n">>,
      <<"l", "i", "b", "r", "a", "r", "i", "e", "s", "|", "{", "}", "\n">>,
      <<"p", "a", "t", "r", "o", "n", "s", "\n">>,
      <<"p", "a", "t", "r", "o", "n", "s", "|", "{", "x", "\n">>,
      <<"p", "a", "t", "r", "o", "n", "_", "t", "y", "p", "e", "s", "|", "{", "\"", "c", "o", "d", "e", "\"", ":", "\"", "A", "\"", "}", "\n">>,
      <<"x", "|", "{", "}", "\n">>,
      <<"S", "E", "L", "E", "C", "T", " ", "*", " ", "F", "R", "O", "M", " ", "p", "a", "t", "r", "o", "n", "s", "\n">>,
      <<"S", "E", "L", "E", "C", "T", " ", "*", " ", "F", "R", "O", "M", " ", "p", "a", "t", "r", "o", "n", "_", "t", "y", "p", "e", "s", "\n">>,
      <<"D", "E", "L", "E", "T", "E", " ", "F", "R", "O", "M", " ", "p", "a", "t", "r", "o", "n", "s", "\n">> }

\* strings.SplitN(input, "|", 2): <<input>> when it holds no "|", else what
\* comes before the first "|" and what comes after it
SplitN2(s) ==
    IF \E k \in 1..Len(s) : s[k] = "|"
    THEN LET k == CHOOSE j \in 1..Len(s) :
                      s[j] = "|" /\ \A m \in 1..(j - 1) : s[m] # "|"
         IN << SubSeq(s, 1, k - 1), SubSeq(s, k + 1, Len(s)) >>
    ELSE << s >>

\* bson.UnmarshalExtJSON of a filter: the documents the driver accepts, as
\* the field and the value they ask for; anything else is a parse error
KnownFilters ==
    { [text |-> <<"{", "\"", "c", "o", "d", "e", "\"", ":", "\"", "A", "\"", "}">>, field |-> "code", value |-> <<"A">>] }

ParseFilter(s) ==
    IF \E f \in KnownFilters : f.text = s
    THEN Some(CHOOSE f \in KnownFilters : f.text = s)
    ELSE Nil

\* the documents of the collection of that name; a collection that does not
\* exist has none
DocsOf(t, name) ==
    IF \E c \in Collections : Chars[c] = name
    THEN t[CHOOSE c \in Collections : Chars[c] = name]
    ELSE <<>>

Matches(doc, filter) ==
    \/ filter = Nil
    \/ /\ filter[1].field \in DOMAIN doc
       /\ doc[filter[1].field] = filter[1].value

FirstN(s, n) == IF Len(s) <= n THEN s ELSE SubSeq(s, 1, n)

\* a Find that also removes what it returns
MongoFindAndDelete(t, name, filter) ==
    [docs |-> FirstN(SelectSeq(DocsOf(t, name), LAMBDA d : Matches(d, filter)),
                     QueryLimit),
     after |-> [c \in Collections |->
                  IF Chars[c] = name
                  THEN SelectSeq(t[c], LAMBDA d : ~Matches(d, filter))
                  ELSE t[c]]]

\* db.Collection(name).Find(ctx, filter, options.Find().SetLimit(100)): the
\* documents of the cursor, and the collections after the call
MongoFind(t, name, filter) ==
    [docs |-> FirstN(SelectSeq(DocsOf(t, name), LAMBDA d : Matches(d, filter)),
                     QueryLimit),
     after |-> t]

\* the statements the server accepts; it rejects anything else
KnownStatements ==
    { [text |-> <<"S", "E", "L", "E", "C", "T", " ", "*", " ", "F", "R", "O", "M", " ", "p", "a", "t", "r", "o", "n", "s">>, verb |-> "select", table |-> "patrons"],
      [text |-> <<"S", "E", "L", "E", "C", "T", " ", "*", " ", "F", "R", "O", "M", " ", "p", "a", "t", "r", "o", "n", "_", "t", "y", "p", "e", "s">>, verb |-> "select", table |-> "patron_types"],
      [text |-> <<"D", "E", "L", "E", "T", "E", " ", "F", "R", "O", "M", " ", "p", "a", "t", "r", "o", "n", "s">>, verb |-> "delete", table |-> "patrons"] }

ParseStatement(s) ==
    IF \E q \in KnownStatements : q.text = s
    THEN Some(CHOOSE q \in KnownStatements : q.text = s)
    ELSE Nil

\* db.Query(input): the server runs whatever statement the line is; ok is
\* FALSE when it rejects the line, docs are the rows of the result set
SqlQuery(t, s) ==
    LET q == ParseStatement(s) IN
    IF q = Nil THEN [ok |-> FALSE, docs |-> <<>>, after |-> t]
    ELSE IF q[1].verb = "select"
         THEN [ok |-> TRUE, docs |-> t[q[1].table], after |-> t]
         ELSE [ok |-> TRUE, docs |-> <<>>,
               after |-> [t EXCEPT ![q[1].table] = <<>>]]

\* the loop over the cursor: a row that cannot be decoded / scanned is
\* reported and neither printed nor counted
RECURSIVE PrintRows(_, _, _)
PrintRows(docs, undecodable, k) ==
    IF k > Len(docs) THEN [lines |-> <<>>, rowCount |-> 0]
    ELSE LET rest == PrintRows(docs, undecodable, k + 1) IN
         IF k \in undecodable
         THEN rest
         ELSE [lines |-> <<docs[k]>> \o rest.lines,
               rowCount |-> rest.rowCount + 1]

\* what the shell did for a line: kind tells the branch taken, calls the
\* store calls issued, lines the result rows printed, rowCount the number of
\* the trailing "documents returned" / "rows returned" line
Outcome(kind, calls, printed) ==
    Some([fn |-> "shell", kind |-> kind, calls |-> calls,
          lines |-> printed.lines, rowCount |-> printed.rowCount])

NoRows == [lines |-> <<>>, rowCount |-> 0]

\* the six queries of runBenchmark
BenchmarkCalls ==
    IF impl = "mongo"
    THEN << "CountDocuments", "Aggregate", "Aggregate", "Aggregate",
            "CountDocuments", "CountDocuments" >>
    ELSE << "Query", "Query", "Query", "Query", "Query", "Query" >>

\* a test of the two words that ignores their case
IsQuitAnyCase(input) == EqualFold(input, kwExit) \/ EqualFold(input, kwQuit)

\* input == "exit" || input == "quit"
IsQuit(input) == input = kwExit \/ input = kwQuit

\* the mongo shell past its keywords: collection|filter, parsed and run
MongoLine(input, fails, undecodable) ==
    LET parts == SplitN2(input) IN
    IF Len(parts) # 2
    THEN [out |-> Outcome("format error", <<>>, NoRows), after |-> store]
    ELSE LET collectionName == TrimSpace(parts[1])
             filterStr == TrimSpace(parts[2])
             noFilter == filterStr = sBraces \/ filterStr = <<>>
             filter == IF noFilter THEN Nil ELSE ParseFilter(filterStr)
             call == [op |-> "Find", kind |-> "read"]
         IN IF ~noFilter /\ filter = Nil
            THEN [out |-> Outcome("filter parse error", <<>>, NoRows),
                  after |-> store]
            ELSE IF fails = "query"
            THEN [out |-> Outcome("query error", <<call>>, NoRows),
                  after |-> store]
            ELSE LET f == MongoFind(store, collectionName, filter) IN
                 [out |-> Outcome("rows", <<call>>,
                                  PrintRows(f.docs, undecodable, 1)),
                  after |-> f.after]

\* the mysql shell past its keywords: the line is the query
SqlLine(input, fails, undecodable) ==
    LET q == SqlQuery(store, input)
        verb == IF ParseStatement(input) = Nil THEN "rejected"
                ELSE IF ParseStatement(input)[1].verb = "select" THEN "read"
                ELSE "write"
        call == [op |-> "Query", kind |-> verb]
    IN IF fails = "query" \/ ~q.ok
       THEN [out |-> Outcome("query error", <<call>>, NoRows), after |-> store]
       ELSE IF fails = "columns"
       THEN [out |-> Outcome("error getting columns", <<call>>, NoRows),
             after |-> q.after]
       ELSE [out |-> Outcome("rows", <<call>>,
                             PrintRows(q.docs, undecodable, 1)),
             after |-> q.after]

\* one turn of the loop of startTextInterface: read a line and handle it
ShellLine ==
    /\ pc = "shell"
    /\ \E line \in ShellLines, fails \in {"no", "query", "columns"} :
       \E undecodable \in (IF fails = "no" THEN {{}, {1}} ELSE {{}}) :
          LET input == TrimSpace(line)
              h == IF input = <<>>
                   THEN [out |-> Outcome("empty", <<>>, NoRows), after |-> store]
                   ELSE IF IsQuit(input)
                   THEN [out |-> Outcome("bye", <<>>, NoRows), after |-> store]
                   ELSE IF input = kwHelp
                   THEN [out |-> Outcome("help", <<>>, NoRows), after |-> store]
                   ELSE IF input = kwBenchmark
                   THEN [out |-> Outcome("benchmark",
                                         [k \in 1..6 |->
                                             [op |-> BenchmarkCalls[k],
                                              kind |-> "read"]],
                                         NoRows),
                         after |-> store]
                   ELSE IF impl = "mongo"
                   THEN MongoLine(input, fails, undecodable)
                   ELSE SqlLine(input, fails, undecodable)
          IN /\ arg' = line
             /\ res' = h.out
             /\ store' = h.after
             /\ pc' = IF IsQuit(input) THEN "exited" ELSE "shell"
    /\ UNCHANGED <<impl, rows, tx, i, row, patronTypeID, patronDocs, good, bad,
                   log, faults, warnings, summary, run, snap>>

\* the sheets of the sessions at the shell: a header only, a header with a
\* row that is rejected, and a header with MaxRows rows that are accepted
ShellSheets ==
    { <<HeaderRow>>,
      <<HeaderRow, RowShort>>,
      <<HeaderRow>> \o [k \in 1..MaxRows |-> IF k % 2 = 1 THEN RowV1 ELSE RowV3] }

InitShell == InitWith(ShellSheets, {<<>>})

\* one launch of the program and the session at its shell
SpecShell == InitShell /\ [][Next \/ ShellLine]_vars

-----------------------------------------------------------------------------
(* Direct calls of cleanEmail and monthToIntOrNull, and of the code that     *)
(* builds the patron of a row, on a chosen cell                              *)

Pads == SeqUpTo({" ", "\t", "\n"}, MaxPad)

Padded(cores) == {a \o c \o b : a \in Pads, c \in cores, b \in Pads}

EmailCores ==
    { <<>>,
      <<"t","r","u","e">>, <<"T","r","u","e">>, <<"T","R","U","E">>,
      <<"t","R","u","E">>,
      <<"f","a","l","s","e">>, <<"F","a","l","s","e">>, <<"F","A","L","S","E">>,
      <<"f","A","l","S","e">>,
      <<"t","r","u">>, <<"t","r","u","e","e">>, <<"f","a","l","s">>,
      <<"t","r","u","e","@">>, <<"@","f","a","l","s","e">>,
      <<"t"," ","r","u","e">>,
      <<"n","o","t","-","a","n">>, <<"a">>, <<"a"," ","b">>,
      <<"@">>, <<"a","@","b">>, <<"a","@","b",".","c">>, <<"A","@","B">>,
      <<"a"," ","@","b">>, <<"a","@","@">> }

CapitalOf(c) ==
    IF \E k \in 1..26 : Lower[k] = c
    THEN Upper[CHOOSE k \in 1..26 : Lower[k] = c]
    ELSE c

Capitalised(s) == [k \in 1..Len(s) |-> IF k = 1 THEN CapitalOf(s[k]) ELSE s[k]]
AllCaps(s) == [k \in 1..Len(s) |-> CapitalOf(s[k])]

MonthCores ==
    {MonthNames[n] : n \in 1..12}
    \cup {Capitalised(MonthNames[n]) : n \in 1..12}
    \cup {AllCaps(MonthNames[n]) : n \in 1..12}
    \cup { <<>>, <<"s","m","a","r","c","h">>, <<"j","a","n">>,
           <<"m","a","y","y">>, <<"m","a"," ","y">>, <<"5">>, <<"1","2">>,
           <<"j","u","n","e","j","u","l","y">>, <<"M","A","i">> }

EmailInputs == Padded(EmailCores)
MonthInputs == Padded(MonthCores)

\* row RowV1 with cell k replaced
RowWith(k, cell) == [RowV1 EXCEPT ![k] = cell]

InitEmail == InitWith({<<>>}, EmailInputs)
InitMonth == InitWith({<<>>}, MonthInputs)

\* cleanEmail(arg)
CallCleanEmail ==
    /\ res = Nil
    /\ res' = Some([fn |-> "cleanEmail", out |-> cleanEmail(arg)])
    /\ UNCHANGED <<loaderVars, arg>>

\* the e-mail of the patron built from a row whose e-mail cell is arg
CallPatronEmail ==
    /\ res = Nil
    /\ res' = Some([fn |-> "patron",
                    out |-> IF impl = "mongo"
                            THEN MakePatron(CleanRowCells(RowWith(12, arg))).email
                            ELSE MakePatronSQL(1, CleanRowCells(RowWith(12, arg))).email])
    /\ UNCHANGED <<loaderVars, arg>>

\* monthToIntOrNull(arg), its warning line counted
CallMonthToIntOrNull ==
    /\ res = Nil
    /\ res' = Some([fn |-> "monthToIntOrNull", out |-> monthToIntOrNull(arg).val])
    /\ warnings' = warnings + (IF monthToIntOrNull(arg).warned THEN 1 ELSE 0)
    /\ UNCHANGED <<impl, rows, store, tx, pc, i, row, patronTypeID, patronDocs,
                   good, bad, log, faults, summary, run, snap, arg>>

\* the active month of the patron built from a row whose month cell is arg
CallPatronMonth ==
    /\ res = Nil
    /\ res' = Some([fn |-> "patron",
                    out |-> IF impl = "mongo"
                            THEN MakePatron(CleanRowCells(RowWith(8, arg))).active_month
                            ELSE MakePatronSQL(1, CleanRowCells(RowWith(8, arg))).active_month])
    /\ warnings' = warnings + MonthWarning(CleanRowCells(RowWith(8, arg)))
    /\ UNCHANGED <<impl, rows, store, tx, pc, i, row, patronTypeID, patronDocs,
                   good, bad, log, faults, summary, run, snap, arg>>

SpecEmail == InitEmail /\ [][CallCleanEmail \/ CallPatronEmail]_vars

SpecMonth == InitMonth /\ [][CallMonthToIntOrNull \/ CallPatronMonth]_vars

-----------------------------------------------------------------------------
(* What the claims speak of *)

\* s without the white space at its two ends, said without scanning: the
\* one slice of s that has only white space before and after it and that
\* neither starts nor ends with white space
IsTrimOf(t, s, a, b) ==
    /\ t = SubSeq(s, a, b)
    /\ \A k \in 1..(a - 1) : IsSpace(s[k])
    /\ \A k \in (b + 1)..Len(s) : IsSpace(s[k])
    /\ t # <<>> => ~IsSpace(t[1]) /\ ~IsSpace(t[Len(t)])

Trimmed(s) ==
    CHOOSE t \in {SubSeq(s, a, b) : a \in 1..(Len(s) + 1), b \in 0..Len(s)} :
        \E a \in 1..(Len(s) + 1), b \in 0..Len(s) : IsTrimOf(t, s, a, b)

\* t is word in some mix of upper and lower case
SameLetters(t, word) ==
    /\ Len(t) = Len(word)
    /\ \A k \in 1..Len(t) : t[k] = word[k] \/ t[k] = CapitalOf(word[k])

HasAt(t) == "@" \in {t[k] : k \in 1..Len(t)}

\* the e-mail the data cleaning rules give for a cell
ExpectedEmail(s) ==
    LET t == Trimmed(s) IN
    IF t = <<>> \/ SameLetters(t, sTrue) \/ SameLetters(t, sFalse) \/ ~HasAt(t)
    THEN Nil
    ELSE Some(t)

\* C5: cleanEmail returns nil when the trimmed input is empty, is true/false
\* in any letter case or has no '@', and otherwise the trimmed input; the
\* e-mail of a patron built from a row is nil or has an '@' and is not a
\* true/false sentinel.
C5_EmailSanitization ==
    res # Nil =>
        /\ res[1].fn = "cleanEmail" => res[1].out = ExpectedEmail(arg)
        /\ res[1].fn = "patron" =>
              \/ res[1].out = Nil
              \/ /\ HasAt(res[1].out[1])
                 /\ ~SameLetters(res[1].out[1], sTrue)
                 /\ ~SameLetters(res[1].out[1], sFalse)

\* a padded address is returned trimmed, and stored in the patron
C5_Witness ==
    /\ res # Nil
    /\ arg = <<" ", "a", "@", "b", ".", "c", " ">>
    /\ res[1].out = Some(<<"a", "@", "b", ".", "c">>)
    /\ res[1].fn = "patron"

\* the number of the month t names in some mix of cases, 0 when it names none
MonthNumber(t) ==
    IF \E n \in 1..12 : SameLetters(t, MonthNames[n])
    THEN CHOOSE n \in 1..12 : SameLetters(t, MonthNames[n])
    ELSE 0

\* C6: monthToIntOrNull returns nil or a number in 1..12; it returns n
\* exactly when the trimmed input is the n-th month name in any letter case;
\* an empty input gives nil and no warning, any other unrecognised input nil
\* and exactly one warning; the active month of a patron built from a row is
\* nil or in 1..12.
C6_MonthParsing ==
    res # Nil =>
        LET t == Trimmed(arg)
            out == res[1].out
        IN /\ out = Nil \/ (Len(out) = 1 /\ out[1] \in 1..12)
           /\ res[1].fn = "monthToIntOrNull" =>
                 /\ \A n \in 1..12 : out = Some(n) <=> SameLetters(t, MonthNames[n])
                 /\ t = <<>> => out = Nil /\ warnings = 0
                 /\ (t # <<>> /\ MonthNumber(t) = 0) => out = Nil /\ warnings = 1
                 /\ MonthNumber(t) # 0 => warnings = 0

\* " DECEMBER\n" is month 12
C6_Witness ==
    /\ res # Nil
    /\ res[1].fn = "monthToIntOrNull"
    /\ arg = <<" ","D","E","C","E","M","B","E","R","\n">>
    /\ res[1].out = Some(12)
    /\ warnings = 0

-----------------------------------------------------------------------------
(* The load *)

RefColls == {"patron_types", "libraries", "notification_types"}

\* a call that writes a reference entity
IsRefWrite(c) == c.coll \in RefColls /\ c.op \in {"upsert", "insert"}

\* a call that inserts patron records
IsPatronInsert(c) == c.coll = "patrons" /\ c.op \in {"insertMany", "insert"}

\* a call made for one row of the loop
IsRowCall(c) == c.coll \in RefColls /\ c.op \in {"upsert", "insert", "select"}

Last(s) == s[Len(s)]

\* the description / name of a reference entity
DescOf(coll, d) == IF coll = "libraries" THEN d.name ELSE d.description

\* the number of data rows of the sheet: every row except the header
DataRows == IF Len(rows) = 0 THEN 0 ELSE Len(rows) - 1

\* the number of data rows with fewer than 14 cells
Rejected == Cardinality({k \in 2..Len(rows) : Len(rows[k]) < 14})

RECURSIVE ConcatArgs(_)
\* the documents carried by a sequence of calls, in order
ConcatArgs(calls) ==
    IF calls = <<>> THEN <<>> ELSE Head(calls).arg \o ConcatArgs(Tail(calls))

PatronInserts == SelectSeq(log, IsPatronInsert)
PatronInsertsOk == SelectSeq(log, LAMBDA c : IsPatronInsert(c) /\ c.ok)

IsSuffix(s, t) ==
    /\ Len(s) <= Len(t)
    /\ s = SubSeq(t, Len(t) - Len(s) + 1, Len(t))

\* C1: with no row counted as failed in either launch beyond the rows that
\* are too short, a second launch on the same sheet leaves the store as the
\* first launch left it.
C1_ReloadIdempotent ==
    (run = 2 /\ pc = "shell" /\ bad = Rejected /\ snap[1].bad = Rejected)
        => store = snap[1].store

\* C2: after a load, a code that a row introduced has exactly one entity in
\* its reference set, with the description / name of the first row that
\* introduced it.
C2_FirstWriteWins ==
    pc = "shell" =>
        \A k \in 1..Len(log) :
            (/\ IsRefWrite(log[k])
             /\ log[k].ok
             /\ \A j \in 1..(k - 1) :
                    ~(IsRefWrite(log[j]) /\ log[j].ok /\ log[j].coll = log[k].coll
                      /\ log[j].arg.code = log[k].arg.code))
            => LET coll == store[log[k].coll]
                   ents == {j \in 1..Len(coll) : coll[j].code = log[k].arg.code}
               IN /\ Cardinality(ents) = 1
                  /\ \A j \in ents :
                         DescOf(log[k].coll, coll[j]) = DescOf(log[k].coll, log[k].arg)

\* the loop is at a data row with fewer than 14 cells
ShortRowAtHand ==
    /\ pc = "loop"
    /\ i > 0
    /\ i < Len(rows)
    /\ Len(rows[i + 1]) < 14

\* C3: a data row with fewer than 14 cells is counted as failed and nothing
\* else happens: no store call is issued for it, the store, the transaction
\* and the batch buffer stay as they are; no call in the log was made for
\* such a row.
C3_RejectionNoSideEffects ==
    /\ [](\A k \in 1..Len(log) :
              IsRowCall(log[k]) => Len(rows[log[k].row + 1]) >= 14)
    /\ [][ShortRowAtHand =>
              /\ bad' = bad + 1
              /\ i' = i + 1
              /\ pc' = "loop"
              /\ UNCHANGED <<store, tx, log, patronDocs, good>>]_vars

\* a short row was just rejected, after a row that was loaded
C3_Witness ==
    /\ pc = "loop"
    /\ i >= 3
    /\ Len(rows[i]) < 14
    /\ Len(rows[i - 1]) >= 14
    /\ bad = 1
    /\ faults = 0

\* the rows whose three reference writes succeeded, in input order
AcceptedRows ==
    SelectSeq(log, LAMBDA c : c.coll = "notification_types" /\ c.op = "upsert" /\ c.ok)

\* the patron documents of those rows
AcceptedDocs ==
    [k \in 1..Len(AcceptedRows) |->
        MakePatron(CleanRowCells(rows[AcceptedRows[k].row + 1]))]

\* C4 (mongo): a failed bulk insert never ends the load; every accepted
\* record is handed to a bulk insert, whatever happened to earlier batches,
\* and the records of the batches that succeeded are in the store.
C4_BatchFailureIsolation ==
    impl = "mongo" =>
        /\ (pc = "fatal" /\ log # <<>>) => Last(log).op # "insertMany"
        /\ pc \in {"loop", "pt", "lib", "nt", "flush", "final"} =>
               ConcatArgs(PatronInserts) \o patronDocs = AcceptedDocs
        /\ pc \in {"summary", "shell"} =>
               /\ ConcatArgs(PatronInserts) = AcceptedDocs
               /\ IsSuffix(ConcatArgs(PatronInsertsOk), store.patrons)

\* a batch failed and a later batch succeeded
C4_Witness ==
    /\ impl = "mongo"
    /\ pc = "shell"
    /\ \E j, k \in 1..Len(PatronInserts) :
           /\ j < k
           /\ ~PatronInserts[j].ok
           /\ PatronInserts[k].ok
           /\ IsSuffix(PatronInserts[k].arg, store.patrons)

RECURSIVE CountDocs(_)
CountDocs(calls) ==
    IF calls = <<>> THEN 0 ELSE Len(Head(calls).arg) + CountDocs(Tail(calls))

\* C7: the summary's total is the number of data rows, its successful count
\* the number of records whose insert succeeded, its failed count all other
\* data rows, and successful + failed = total.
C7_SummaryAccounting ==
    summary # Nil =>
        /\ summary[1].total = DataRows
        /\ summary[1].good = CountDocs(PatronInsertsOk)
        /\ summary[1].bad = DataRows - CountDocs(PatronInsertsOk)
        /\ summary[1].good + summary[1].bad = summary[1].total

\* the same for the sheets that have their header row
SummaryAccountingWithHeader ==
    Len(rows) > 0 => C7_SummaryAccounting

\* C8: a failed destroy of a collection / table ends the load: it is the
\* last store call and the program is in its failed state.
C8_ResetFailureIsFatal ==
    \A k \in 1..Len(log) :
        (log[k].op = "drop" /\ ~log[k].ok) => (pc = "fatal" /\ k = Len(log))

\* with no failed call at all, a second launch leaves the store as the first
\* launch left it
ReloadIdempotentFaultFree ==
    (run = 2 /\ pc = "shell" /\ faults = 0) => store = snap[1].store

\* the reference entities of patron record d are in the tables t
RefsPresent(d, t) ==
    /\ IF impl = "mongo"
       THEN HasCode(t.patron_types, d.patron_type_code)
       ELSE \E k \in 1..Len(t.patron_types) : t.patron_types[k].id = d.patron_type_id
    /\ HasCode(t.libraries, d.home_library_code)
    /\ HasCode(t.notification_types, d.notification_type_code)

\* the three reference writes of the current row are in the log, succeeded,
\* in the order patron type, library, notification type
RowWritesDone ==
    \E a, b, c \in 1..Len(log) :
        /\ a < b /\ b < c
        /\ log[a].row = i /\ log[b].row = i /\ log[c].row = i
        /\ log[a].ok /\ log[b].ok /\ log[c].ok
        /\ log[a].coll = "patron_types" /\ log[a].arg.code = row[1]
        /\ log[b].coll = "libraries" /\ log[b].arg.code = row[6]
        /\ log[c].coll = "notification_types" /\ log[c].arg.code = row[10]

\* the records a step adds to a patrons sequence
Added(before, after) ==
    IF Len(after) > Len(before)
    THEN {after[k] : k \in (Len(before) + 1)..Len(after)}
    ELSE {}

\* C9: when a row's record is about to be buffered or inserted its three
\* reference writes have been issued and have succeeded and its reference
\* entities are in the store; every buffered record has them in the store;
\* and a step that puts records into patrons, or commits them, puts only
\* records whose reference entities are already there.
C9_ReferencesBeforeRecord ==
    /\ [](pc = "patron" =>
              /\ RowWritesDone
              /\ HasCode(Tables.patron_types, row[1])
              /\ HasCode(Tables.libraries, row[6])
              /\ HasCode(Tables.notification_types, row[10])
              /\ impl = "mysql" =>
                     \E k \in 1..Len(Tables.patron_types) :
                         /\ Tables.patron_types[k].id = patronTypeID
                         /\ Tables.patron_types[k].code = row[1])
    /\ [](pc \in {"loop", "pt", "lib", "nt", "patron", "flush", "final"} =>
              \A k \in 1..Len(patronDocs) : RefsPresent(patronDocs[k], store))
    /\ [][/\ impl = "mongo" =>
                 \A d \in Added(store.patrons, store'.patrons) :
                     RefsPresent(d, store) /\ RefsPresent(d, store')
          /\ (impl = "mysql" /\ tx # Nil /\ tx' # Nil) =>
                 \A d \in Added(tx[1].patrons, tx'[1].patrons) :
                     RefsPresent(d, tx[1]) /\ RefsPresent(d, tx'[1])
          /\ (impl = "mysql" /\ pc = "commit" /\ pc' = "summary") =>
                 \A k \in 1..Len(store'.patrons) :
                     RefsPresent(store'.patrons[k], store')]_vars

\* records of two rows with different reference codes are in the store
C9_Witness ==
    /\ pc = "shell"
    /\ Len(store.patrons) >= 2
    /\ \E j, k \in 1..Len(store.patrons) :
           store.patrons[j].home_library_code # store.patrons[k].home_library_code
    /\ \A k \in 1..Len(store.patrons) : RefsPresent(store.patrons[k], store)

\* the loop over the rows is running
InLoading == pc \in {"loop", "pt", "lib", "nt", "patron", "flush", "final"}

\* tx.Commit failed
CommitFailed == pc = "fatal" /\ log # <<>> /\ Last(log).op = "commit"

\* how far the load is from its end: the rows left, and within a row the
\* steps left
Rank ==
    CASE pc = "loop" -> 0
      [] pc = "pt" -> 1
      [] pc = "lib" -> 2
      [] pc = "nt" -> 3
      [] pc = "patron" -> 4
      [] pc = "flush" -> 5
      [] pc \in {"final", "commit"} -> 6
      [] OTHER -> 7

Measure == (Len(rows) + 1 - i) * 8 - Rank

\* the guards of the step the load is at hold: the loop head has a branch
\* for every case, a statement of the row has its transaction (mysql), the
\* batch steps are those of the mongo program and the commit that of the
\* mysql program
CanStep ==
    \/ pc \in {"loop", "summary"}
    \/ pc \in {"pt", "lib", "nt", "patron"} /\ (impl = "mongo" \/ tx # Nil)
    \/ pc \in {"flush", "final"} /\ impl = "mongo"
    \/ pc = "commit" /\ impl = "mysql" /\ tx # Nil

\* CanStep says no more than that a step is enabled
CanStepIsEnabled == CanStep => ENABLED Next

\* C10: while the rows are loaded no step ends the program: a rejected row,
\* a failed reference write, a failed insert or a failed bulk insert leaves
\* the load running, raises the failure counter and never lowers it, and
\* moves the loop by at most one row; the load can always take a step, every
\* step brings it nearer to its end (so it reaches the end), and at the end
\* every row has been visited and the summary is printed, unless the final
\* commit (mysql) fails.
C10_RowFailuresNeverFatal ==
    /\ [](InLoading => CanStep /\ i <= Len(rows) /\ Measure >= 0)
    /\ [](pc \in {"commit", "summary"} => CanStep /\ i = Len(rows))
    /\ [](summary # Nil => i = Len(rows))
    /\ [][InLoading =>
              /\ pc' # "fatal"
              /\ i' \in {i, i + 1}
              /\ bad' >= bad
              /\ (faults' > faults => bad' > bad)
              /\ Measure' < Measure]_vars
    /\ [][pc = "commit" => (pc' = "summary" \/ CommitFailed')]_vars
    /\ [][pc = "summary" => summary' # Nil]_vars

\* the summary was printed after a write failed for one row and a later
\* row's record was inserted
C10_Witness ==
    /\ summary # Nil
    /\ bad > 0
    /\ \E j, k \in 1..Len(log) :
           /\ j < k
           /\ ~log[j].ok
           /\ (IsRowCall(log[j]) \/ IsPatronInsert(log[j]))
           /\ IsPatronInsert(log[k])
           /\ log[k].ok

-----------------------------------------------------------------------------
(* C11 .. C13: the query shell *)

ShellDid == res # Nil /\ res[1].fn = "shell"

NoWriteCall(r) == \A k \in 1..Len(r.calls) : r.calls[k].kind # "write"

\* the number of white space characters s begins with
Lead(s) ==
    CHOOSE a \in 0..Len(s) :
        /\ \A k \in 1..a : IsSpace(s[k])
        /\ a < Len(s) => ~IsSpace(s[a + 1])

\* s is word with white space on both sides
IsPaddedWord(s, word) ==
    LET a == Lead(s) IN
    /\ a + Len(word) <= Len(s)
    /\ \A k \in 1..Len(word) : s[a + k] = word[k]
    /\ \A k \in (a + Len(word) + 1)..Len(s) : IsSpace(s[k])

\* s is, after white space, a SELECT statement in any letter case
BeginsSelect(s) ==
    LET a == Lead(s) IN
    /\ a + 6 <= Len(s)
    /\ SameLetters(ToLower(SubSeq(s, a + 1, a + 6)), <<"s","e","l","e","c","t">>)

\* the line ends the session
QuitLine(s) == IsPaddedWord(s, kwExit) \/ IsPaddedWord(s, kwQuit)

\* the lines the shell itself answers, and the queries that only read
ReadingLine(s) ==
    \/ \E w \in {<<>>, kwExit, kwQuit, kwHelp, kwBenchmark} : IsPaddedWord(s, w)
    \/ BeginsSelect(s)

\* C11 as stated: the query shell is read-only: for every line the user can
\* type, handling the line leaves the four collections / tables unchanged
\* and issues no write to the store.
C11_ShellReadOnly ==
    [][pc = "shell" => store' = store /\ NoWriteCall(res'[1])]_vars

\* C11 as amended: the mongo shell is read-only for every line; the mysql
\* shell leaves the four tables unchanged, and issues no write, for every
\* line that is empty, a word of the shell, or a SELECT statement (any other
\* line is handed to the server as typed).
C11_ShellReadOnlyForReadingLines ==
    [][pc = "shell" /\ (impl = "mongo" \/ ReadingLine(arg'))
          => store' = store /\ NoWriteCall(res'[1])]_vars

\* a query of the shell has printed documents that are still in the store
C11_Witness ==
    /\ ShellDid
    /\ res[1].kind = "rows"
    /\ res[1].rowCount > 0
    /\ \A k \in 1..Len(res[1].lines) :
           \E c \in Collections : \E j \in 1..Len(store[c]) :
               store[c][j] = res[1].lines[k]

\* C12: the shell never exits on bad input: the loop of the shell ends
\* exactly when the trimmed line is "exit" or "quit" in lower case; after any
\* other line the shell has reported an outcome and is at its prompt again.
C12_ShellExitsOnlyOnQuit ==
    [][pc = "shell" =>
          /\ res' # Nil
          /\ IF QuitLine(arg')
             THEN pc' = "exited"
             ELSE pc' = "shell"]_vars

\* the shell is at its prompt after a line "EXIT" that was not a query
C12_Witness ==
    /\ ShellDid
    /\ pc = "shell"
    /\ arg = <<"E","X","I","T","\n">>
    /\ res[1].kind \in {"query error", "format error"}

\* C13: bounded shell output: for every query line the shell prints at most
\* QueryLimit (100 in the code) result rows, and the trailing count is the
\* number of rows it printed.
C13_BoundedShellOutput ==
    ShellDid =>
        /\ Len(res[1].lines) <= QueryLimit
        /\ res[1].rowCount = Len(res[1].lines)

-----------------------------------------------------------------------------
(* C14: the phases of a run *)

\* the phase the program is in: 0 Idle, 1 SchemaReset (the reset is under
\* way or done, the indexes / constraints are not there yet), 2 IndexesReady,
\* 3 Loading, 4 Committed, 5 Failed
Phase(p) ==
    CASE p \in {"start", "mainIndexes"} -> 0
      [] p = "open" -> IF impl = "mongo" THEN 0 ELSE 2
      [] p \in {"dropPatrons", "dropPatronTypes", "dropLibraries",
                "dropNotificationTypes", "indexes", "createTables"} -> 1
      [] p = "begin" -> 2
      [] p \in {"loop", "pt", "lib", "nt", "patron", "flush", "final",
                "commit"} -> 3
      [] p \in {"summary", "shell"} -> 4
      [] p = "fatal" -> 5

\* before call k of the log all four destroy operations were attempted, and
\* after them the indexes / tables with their unique codes were created
ResetBefore(k) ==
    \E c \in 1..(k - 1) :
        /\ log[c].op \in {"createIndexes", "createTables"}
        /\ log[c].ok
        /\ \A n \in 1..4 :
               \E d \in 1..(c - 1) :
                   log[d].op = "drop" /\ log[d].coll = DropOrder[n]

\* C14: the program moves only forward through Idle, SchemaReset,
\* IndexesReady, Loading, Committed (or to Failed); no reference write and no
\* record insert is issued before the four destroy operations were attempted
\* and the unique indexes / constraints created; the shell starts only once
\* the load is committed and its summary printed; after a structural failure
\* nothing more happens.
C14_PhaseOrdering ==
    /\ [][Phase(pc') >= Phase(pc)]_vars
    /\ [](\A k \in 1..Len(log) :
             (IsRefWrite(log[k]) \/ IsPatronInsert(log[k]) \/ log[k].op = "select")
                 => ResetBefore(k))
    /\ [](Phase(pc) \in {3, 4} => ResetBefore(Len(log) + 1))
    /\ [][pc' = "shell" => pc = "summary" /\ summary' # Nil]_vars
    /\ [][pc # "fatal"]_vars

\* the shell has started after a load that wrote reference entities and
\* records to the store
C14_Witness ==
    /\ pc = "shell"
    /\ \E j, k \in 1..Len(log) :
           /\ IsRefWrite(log[j]) /\ log[j].ok
           /\ IsPatronInsert(log[k]) /\ log[k].ok

-----------------------------------------------------------------------------
(* C15: the batches of the mongo loader *)

\* C15 (mongo): the batch buffer never holds more than BatchSize (1000 in the
\* code) records; it is handed to one bulk insert exactly when it reaches
\* BatchSize and is empty afterwards, whether or not the insert succeeded;
\* what is left is handed to one bulk insert at the end; so every accepted
\* record is submitted in exactly one bulk insert, in input order.
C15_BatchingDiscipline ==
    /\ [](impl = "mongo" =>
             /\ Len(patronDocs) <= BatchSize
             /\ pc \in {"loop", "pt", "lib", "nt", "patron", "final"} =>
                    Len(patronDocs) < BatchSize
             /\ pc = "flush" => Len(patronDocs) = BatchSize
             /\ \A k \in 1..Len(PatronInserts) :
                    /\ Len(PatronInserts[k].arg) \in 1..BatchSize
                    /\ Len(PatronInserts[k].arg) < BatchSize =>
                           k = Len(PatronInserts) /\ pc \in {"summary", "shell"}
             /\ pc \in {"summary", "shell"} =>
                    ConcatArgs(PatronInserts) = AcceptedDocs)
    /\ [][impl = "mongo" /\ pc = "flush" =>
              /\ patronDocs' = <<>>
              /\ log' = Append(log, Last(log'))
              /\ IsPatronInsert(Last(log'))
              /\ Last(log').arg = patronDocs]_vars
    /\ [][impl = "mongo" /\ pc = "final" =>
              IF patronDocs = <<>>
              THEN log' = log
              ELSE /\ log' = Append(log, Last(log'))
                   /\ IsPatronInsert(Last(log'))
                   /\ Last(log').arg = patronDocs]_vars

\* the load ended after a full batch and a last, smaller batch, the full
\* batch having failed
C15_Witness ==
    /\ impl = "mongo"
    /\ pc = "shell"
    /\ Len(PatronInserts) = 2
    /\ Len(PatronInserts[1].arg) = BatchSize
    /\ ~PatronInserts[1].ok
    /\ Len(PatronInserts[2].arg) < BatchSize

-----------------------------------------------------------------------------
(* C16: the reference writes of a load *)

SameCode(a, b) == a.coll = b.coll /\ a.arg.code = b.arg.code

\* C16 as stated: within one load, for each reference set at most one write
\* call is issued per distinct code, however many rows carry the code.
C16_NoRedundantUpserts ==
    \A j, k \in 1..Len(log) :
        (j < k /\ IsRefWrite(log[j]) /\ IsRefWrite(log[k]))
            => ~SameCode(log[j], log[k])

\* C16 as amended: the loader keeps no set of seen codes: it issues at most
\* one write call per row and reference set, and one for every row whose
\* earlier writes succeeded, so a code carried by n rows may be written n
\* times; a call whose code is already in the set leaves the set as it is.
C16_OneUpsertPerRowAndSet ==
    /\ [][(Len(log') > Len(log) /\ IsRefWrite(Last(log'))) =>
              \A j \in 1..Len(log) :
                  (IsRefWrite(log[j]) /\ log[j].coll = Last(log').coll)
                      => log[j].row < Last(log').row]_vars
    /\ [][(Len(log') > Len(log) /\ Last(log').coll = "notification_types"
              /\ Last(log').op = "upsert") =>
              \E a \in 1..Len(log) : \E b \in (a + 1)..Len(log) :
                  /\ log[a].row = Last(log').row /\ log[b].row = Last(log').row
                  /\ log[a].coll = "patron_types" /\ log[a].ok
                  /\ log[b].coll = "libraries" /\ log[b].op = "upsert"
                  /\ log[b].ok]_vars
    /\ [][(pc \in {"pt", "lib", "nt"} /\ Len(log') > Len(log)
              /\ Last(log').op = "upsert"
              /\ HasCode(Tables[Last(log').coll], Last(log').arg.code))
             => Tables' = Tables]_vars

\* a code was written for two rows, both calls succeeded, and the set holds
\* one entity with the code
C16_Witness ==
    /\ pc = "shell"
    /\ \E j, k \in 1..Len(log) :
           /\ j < k
           /\ IsRefWrite(log[j]) /\ log[j].ok
           /\ IsRefWrite(log[k]) /\ log[k].ok
           /\ SameCode(log[j], log[k])
           /\ Cardinality({n \in 1..Len(store[log[k].coll]) :
                  store[log[k].coll][n].code = log[k].arg.code}) = 1

-----------------------------------------------------------------------------
(* C17: the transaction of the mysql loader *)

\* importExcel has returned an error (the file, db.Begin, tx.Prepare or
\* tx.Commit failed)
ImportFailed ==
    /\ pc = "fatal"
    /\ \E k \in 1..Len(log) : log[k].op = "createTables" /\ log[k].ok

\* C17 (mysql): the reference entities and patron records written by
\* importExcel belong to one transaction: no table changes while the rows are
\* loaded; if importExcel returns an error the transaction is gone and none
\* of the load's reference entities or records is in the store; if it
\* returns without error the records counted as successful, and the
\* reference entities written, all are.
C17_AllOrNothing ==
    /\ [][impl = "mysql" /\ (InLoading \/ pc = "begin") => store' = store]_vars
    /\ [](impl = "mysql" /\ ImportFailed =>
             /\ tx = Nil
             /\ store = EmptyStore)
    /\ [](impl = "mysql" /\ pc \in {"summary", "shell"} =>
             /\ tx = Nil
             /\ store.patrons = ConcatArgs(PatronInsertsOk)
             /\ Len(store.patrons) = good
             /\ \A k \in 1..Len(log) :
                    (IsRefWrite(log[k]) /\ log[k].ok) =>
                        HasCode(store[log[k].coll], log[k].arg.code))

\* the commit failed after reference entities and a record had been written
\* in the transaction
C17_Witness ==
    /\ impl = "mysql"
    /\ CommitFailed
    /\ store = EmptyStore
    /\ \E j, k \in 1..Len(log) :
           /\ IsRefWrite(log[j]) /\ log[j].ok
           /\ IsPatronInsert(log[k]) /\ log[k].ok

-----------------------------------------------------------------------------
(* C18: the summary and the store *)

\* C18: after a load that reached its summary the number of patron records
\* in the store is the successful count of the summary, whatever the store
\* held before and whichever drop, upsert or insert failed.
C18_SuccessesMatchStore ==
    summary # Nil => Len(store.patrons) = summary[1].good

\* the same when no drop failed
SuccessesMatchStoreAfterReset ==
    (summary # Nil /\ \A k \in 1..Len(log) : log[k].op = "drop" => log[k].ok)
        => Len(store.patrons) = summary[1].good

-----------------------------------------------------------------------------
(* C19, C20: what a failure leaves in the store *)

\* the cell of a row that holds the code of a reference set
CodeCell(c) ==
    CASE c = "patron_types" -> 1
      [] c = "libraries" -> 6
      [] c = "notification_types" -> 10

RECURSIVE DocsBefore(_)
\* the number of documents handed to the bulk inserts before the k-th
DocsBefore(k) ==
    IF k <= 1 THEN 0
    ELSE DocsBefore(k - 1) + Len(PatronInserts[k - 1].arg)

\* the loop indexes of the rows whose patron record was inserted: the rows of
\* the successful INSERT statements (mysql), the accepted rows whose place is
\* in a bulk insert that succeeded (mongo)
InsertedRows ==
    IF impl = "mysql"
    THEN {PatronInsertsOk[k].row : k \in 1..Len(PatronInsertsOk)}
    ELSE {AcceptedRows[n].row : n \in
             {m \in 1..Len(AcceptedRows) :
                 \E k \in 1..Len(PatronInserts) :
                     /\ PatronInserts[k].ok
                     /\ m > DocsBefore(k)
                     /\ m <= DocsBefore(k) + Len(PatronInserts[k].arg)}}

\* C19: after a load every reference entity in the store was introduced by a
\* row whose patron record was successfully inserted: a row counted as failed
\* leaves behind no reference entity that only it introduced.  Stated for
\* the loads in which no drop failed, so that every entity in the store was
\* written by this load.
C19_FailedRowLeavesNothing ==
    (summary # Nil /\ \A k \in 1..Len(log) : log[k].op = "drop" => log[k].ok)
        => \A c \in RefColls : \A n \in 1..Len(store[c]) :
               \E r \in InsertedRows :
                   CleanRowCells(rows[r + 1])[CodeCell(c)] = store[c][n].code

\* the same whatever the drops did
FailedRowLeavesNothingAnyReset ==
    summary # Nil =>
        \A c \in RefColls : \A n \in 1..Len(store[c]) :
            \E r \in InsertedRows :
                CleanRowCells(rows[r + 1])[CodeCell(c)] = store[c][n].code

\* C20: when the sheet cannot be opened or read the run fails without having
\* destroyed or modified any of the four collections / tables: no call that
\* changes them was issued before.
C20_UnreadableInputLeavesStore ==
    [][(pc = "open" /\ pc' = "fatal") =>
          \A k \in 1..Len(log) :
              ~(log[k].ok /\ log[k].op \in {"drop", "upsert", "insert",
                                            "insertMany", "commit"})]_vars

\* the same for the mongo program
UnreadableInputLeavesStoreMongo ==
    [][(impl = "mongo" /\ pc = "open" /\ pc' = "fatal") =>
          \A k \in 1..Len(log) :
              ~(log[k].ok /\ log[k].op \in {"drop", "upsert", "insert",
                                            "insertMany", "commit"})]_vars

=============================================================================
